---- MODULE Spec2Model ----
(***************************************************************************)
(* Norwegian Singles Planner (src/src/App.tsx, first App component).       *)
(*                                                                         *)
(* The React state of the component is the state of the model, every       *)
(* event handler is an action, and the memoised values (zones, plan,       *)
(* chartData, totals) are operators of the state.                          *)
(*                                                                         *)
(* Numbers.  A JavaScript number is modelled as an exact extended          *)
(* rational [n, d]: d > 0 is the finite value n/d in lowest terms,         *)
(* <<1,0>> is Infinity, <<-1,0>> is -Infinity and <<0,0>> is NaN.  The     *)
(* arithmetic follows IEEE-754 on the special values.  Two things are      *)
(* idealised: binary rounding error (3/20 is exactly 3/20) and the sign    *)
(* of zero (every zero is +0).                                             *)
(***************************************************************************)
EXTENDS Integers, Sequences, FiniteSets

\* ------------------------------------------------------------ numbers

Abs(i) == IF i < 0 THEN -i ELSE i

Sign(i) == IF i < 0 THEN -1 ELSE IF i > 0 THEN 1 ELSE 0

RECURSIVE Gcd(_, _)
Gcd(a, b) == IF b = 0 THEN a ELSE Gcd(b, a % b)

NaN == [n |-> 0, d |-> 0]

Infinity == [n |-> 1, d |-> 0]

NegInfinity == [n |-> -1, d |-> 0]

\* The finite number a/b (b # 0), in lowest terms with a positive denominator.
Q(a, b) ==
  LET g == Gcd(Abs(a), Abs(b))
      s == IF b < 0 THEN -1 ELSE 1
  IN  [n |-> (s * a) \div g, d |-> Abs(b) \div g]

Num(i) == [n |-> i, d |-> 1]

IsNaN(x) == x.d = 0 /\ x.n = 0

IsFinite(x) == x.d > 0

IsInf(x) == x.d = 0 /\ x.n # 0

\* The number with the sign s (-1, 0, 1) and infinite magnitude; 0 gives NaN.
SignedInf(s) == [n |-> s, d |-> 0]

Neg(x) == [n |-> -x.n, d |-> x.d]

Add(x, y) ==
  IF IsNaN(x) \/ IsNaN(y) THEN NaN
  ELSE IF IsInf(x) /\ IsInf(y) THEN (IF x.n = y.n THEN x ELSE NaN)
  ELSE IF IsInf(x) THEN x
  ELSE IF IsInf(y) THEN y
  ELSE Q(x.n * y.d + y.n * x.d, x.d * y.d)

Sub(x, y) == Add(x, Neg(y))

Mul(x, y) ==
  IF IsNaN(x) \/ IsNaN(y) THEN NaN
  ELSE IF IsInf(x) \/ IsInf(y) THEN SignedInf(Sign(x.n) * Sign(y.n))
  ELSE Q(x.n * y.n, x.d * y.d)

Div(x, y) ==
  IF IsNaN(x) \/ IsNaN(y) THEN NaN
  ELSE IF IsInf(x) THEN (IF IsInf(y) THEN NaN
                         ELSE SignedInf(x.n * (IF y.n < 0 THEN -1 ELSE 1)))
  ELSE IF IsInf(y) THEN Num(0)
  ELSE IF y.n = 0 THEN SignedInf(Sign(x.n))
  ELSE Q(x.n * y.d, x.d * y.n)

\* x < y, false when either is NaN.
Lt(x, y) ==
  /\ ~IsNaN(x)
  /\ ~IsNaN(y)
  /\ IF IsInf(x) /\ IsInf(y) THEN x.n < y.n
     ELSE IF IsInf(x) THEN x.n < 0
     ELSE IF IsInf(y) THEN y.n > 0
     ELSE x.n * y.d < y.n * x.d

Gt(x, y) == Lt(y, x)

Le(x, y) == ~IsNaN(x) /\ ~IsNaN(y) /\ ~Lt(y, x)

\* Math.max(x, y): NaN when either argument is NaN.
MathMax(x, y) ==
  IF IsNaN(x) \/ IsNaN(y) THEN NaN ELSE IF Lt(x, y) THEN y ELSE x

\* Math.floor(x): the special values are returned as they are.
MathFloor(x) == IF IsFinite(x) THEN Num(x.n \div x.d) ELSE x

\* Math.round(x): floor(x + 0.5), ties towards +Infinity.
MathRound(x) == IF IsFinite(x) THEN MathFloor(Add(x, Q(1, 2))) ELSE x

\* ------------------------------------------------------------ strings
\* A JavaScript string is the sequence of its characters.

Chars(str) ==
  CASE str = "NaN" -> <<"N", "a", "N">>
    [] str = "Infinity" -> <<"I", "n", "f", "i", "n", "i", "t", "y">>
    [] str = "undefined" -> <<"u", "n", "d", "e", "f", "i", "n", "e", "d">>
    [] str = " km" -> <<" ", "k", "m">>
    [] str = " h" -> <<" ", "h">>
    [] str = " min/km" -> <<" ", "m", "i", "n", "/", "k", "m">>

DigitChars == <<"0", "1", "2", "3", "4", "5", "6", "7", "8", "9">>

IsDigit(c) == \E i \in 1..10 : DigitChars[i] = c

DigitVal(c) == (CHOOSE i \in 1..10 : DigitChars[i] = c) - 1

\* The decimal digits of a natural number.
RECURSIVE NatToChars(_)
NatToChars(i) ==
  IF i < 10 THEN <<DigitChars[i + 1]>>
  ELSE NatToChars(i \div 10) \o <<DigitChars[(i % 10) + 1]>>

\* Number.prototype.toString of an integer-valued number or a special value.
NumberToString(x) ==
  IF IsNaN(x) THEN Chars("NaN")
  ELSE IF IsInf(x) THEN (IF x.n < 0 THEN <<"-">> ELSE <<>>) \o Chars("Infinity")
  ELSE (IF x.n < 0 THEN <<"-">> ELSE <<>>) \o NatToChars(Abs(x.n) \div x.d)

\* Number.prototype.toFixed(1): the magnitude rounded to the nearest tenth,
\* a tie to the larger magnitude; the sign of a negative number is kept.
ToFixed1(x) ==
  IF ~IsFinite(x) THEN NumberToString(x)
  ELSE LET t == (20 * Abs(x.n) + x.d) \div (2 * x.d)
       IN  (IF x.n < 0 THEN <<"-">> ELSE <<>>)
             \o NatToChars(t \div 10) \o <<".", DigitChars[(t % 10) + 1]>>

\* String.prototype.padStart(2, "0")
PadStart2(s) == IF Len(s) < 2 THEN <<"0">> \o s ELSE s

\* The longest prefix of s made of decimal digits.
RECURSIVE TakeDigits(_)
TakeDigits(s) ==
  IF s = <<>> \/ ~IsDigit(Head(s)) THEN <<>>
  ELSE <<Head(s)>> \o TakeDigits(Tail(s))

\* The natural number written by a sequence of digits (0 for none).
RECURSIVE DigitsToNat(_)
DigitsToNat(ds) ==
  IF ds = <<>> THEN 0
  ELSE 10 * DigitsToNat(SubSeq(ds, 1, Len(ds) - 1)) + DigitVal(ds[Len(ds)])

RECURSIVE Pow10(_)
Pow10(k) == IF k = 0 THEN 1 ELSE 10 * Pow10(k - 1)

\* s without its leading white space.
RECURSIVE TrimStart(_)
TrimStart(s) ==
  IF s # <<>> /\ Head(s) = " " THEN TrimStart(Tail(s)) ELSE s

Drop(s, k) == SubSeq(s, k + 1, Len(s))

StartsWith(s, p) == Len(s) >= Len(p) /\ SubSeq(s, 1, Len(p)) = p

\* parseInt(s, 10): white space, a sign, then the longest run of digits;
\* NaN when there is no digit.
ParseInt(s) ==
  LET t == TrimStart(s)
      neg == t # <<>> /\ Head(t) = "-"
      u == IF t # <<>> /\ Head(t) \in {"-", "+"} THEN Tail(t) ELSE t
      ds == TakeDigits(u)
  IN  IF ds = <<>> THEN NaN
      ELSE Num((IF neg THEN -1 ELSE 1) * DigitsToNat(ds))

\* parseFloat(s): white space, a sign, then "Infinity" or digits with an
\* optional fraction; what follows the number is ignored; NaN when there is
\* no number.  (An exponent part is not read: no string of the program has
\* one.)
ParseFloat(s) ==
  LET t == TrimStart(s)
      neg == t # <<>> /\ Head(t) = "-"
      u == IF t # <<>> /\ Head(t) \in {"-", "+"} THEN Tail(t) ELSE t
      ip == TakeDigits(u)
      r == Drop(u, Len(ip))
      fp == IF r # <<>> /\ Head(r) = "." THEN TakeDigits(Tail(r)) ELSE <<>>
      m == Q(DigitsToNat(ip \o fp), Pow10(Len(fp)))
  IN  IF StartsWith(u, Chars("Infinity"))
        THEN (IF neg THEN NegInfinity ELSE Infinity)
      ELSE IF ip = <<>> /\ fp = <<>> THEN NaN
      ELSE IF neg THEN Neg(m) ELSE m

\* String.prototype.split(":"): the fields between the colons.
RECURSIVE SplitColon(_)
SplitColon(s) ==
  IF \A i \in 1..Len(s) : s[i] # ":" THEN <<s>>
  ELSE LET k == CHOOSE i \in 1..Len(s) :
                  s[i] = ":" /\ \A j \in 1..(i - 1) : s[j] # ":"
       IN  <<SubSeq(s, 1, k - 1)>> \o SplitColon(Drop(s, k))

\* Element i of an array as parseInt sees it: a missing element is
\* undefined, which parseInt reads as the string "undefined".
ElementText(arr, i) == IF i <= Len(arr) THEN arr[i] ELSE Chars("undefined")

\* x || 0 for a number x: NaN and 0 are falsy.
OrZero(x) == IF IsNaN(x) \/ (IsFinite(x) /\ x.n = 0) THEN Num(0) ELSE x

\* ------------------------------------------------------------ helpers of App

\* Mutant: formatPace without the carry of 60 seconds into the minutes.
formatPace_noCarry(minPerKm) ==
  LET minutes == MathFloor(minPerKm)
      seconds == MathRound(Mul(Sub(minPerKm, minutes), Num(60)))
  IN  NumberToString(minutes) \o <<":">> \o PadStart2(NumberToString(seconds))
        \o Chars(" min/km")

\* formatPace: whole minutes, seconds rounded, 60 seconds carried into the
\* minutes.
formatPace(minPerKm) ==
  LET minutes == MathFloor(minPerKm)
      seconds == MathRound(Mul(Sub(minPerKm, minutes), Num(60)))
  IN  IF seconds = Num(60)
        THEN NumberToString(Add(minutes, Num(1))) \o <<":", "0", "0">>
               \o Chars(" min/km")
        ELSE NumberToString(minutes) \o <<":">>
               \o PadStart2(NumberToString(seconds)) \o Chars(" min/km")

\* Mutant: the score rounded down.
vdotEstimate_floorScore(raceDistance, raceTime) ==
  LET parts == SplitColon(raceTime)
      min == OrZero(ParseInt(ElementText(parts, 1)))
      sec == OrZero(ParseInt(ElementText(parts, 2)))
      totalMin == Add(min, Div(sec, Num(60)))
      v == Mul(Div(raceDistance, totalMin), Num(60))
      estVDOT == MathFloor(Add(Num(10), Mul(v, Num(2))))
      easyMinPerKm == Div(Q(15, 2), Div(v, Num(10)))
      subTMinPerKm == Div(Num(6), Div(v, Num(10)))
      hiMinPerKm == Div(Num(5), Div(v, Num(10)))
  IN  [vdot |-> estVDOT,
       pacesNum |-> [easy |-> easyMinPerKm, subT |-> subTMinPerKm,
                     hi |-> hiMinPerKm],
       pacesStr |-> [easy |-> formatPace(easyMinPerKm),
                     subT |-> formatPace(subTMinPerKm),
                     hi |-> formatPace(hiMinPerKm)]]

\* calculateVdot, up to its three setState calls: the new vdot, pacesNum and
\* pacesStr for a race distance (a number) and a race time (a string).
vdotEstimate(raceDistance, raceTime) ==
  LET parts == SplitColon(raceTime)
      min == OrZero(ParseInt(ElementText(parts, 1)))
      sec == OrZero(ParseInt(ElementText(parts, 2)))
      totalMin == Add(min, Div(sec, Num(60)))
      v == Mul(Div(raceDistance, totalMin), Num(60))
      estVDOT == MathRound(Add(Num(10), Mul(v, Num(2))))
      easyMinPerKm == Div(Q(15, 2), Div(v, Num(10)))
      subTMinPerKm == Div(Num(6), Div(v, Num(10)))
      hiMinPerKm == Div(Num(5), Div(v, Num(10)))
  IN  [vdot |-> estVDOT,
       pacesNum |-> [easy |-> easyMinPerKm, subT |-> subTMinPerKm,
                     hi |-> hiMinPerKm],
       pacesStr |-> [easy |-> formatPace(easyMinPerKm),
                     subT |-> formatPace(subTMinPerKm),
                     hi |-> formatPace(hiMinPerKm)]]

\* totalMin of calculateVdot: the race time in minutes as it is parsed.
raceTotalMin(raceTime) ==
  LET parts == SplitColon(raceTime)
      min == OrZero(ParseInt(ElementText(parts, 1)))
      sec == OrZero(ParseInt(ElementText(parts, 2)))
  IN  Add(min, Div(sec, Num(60)))

\* v of calculateVdot: the race speed in km/h.
raceSpeed(raceDistance, raceTime) ==
  Mul(Div(raceDistance, raceTotalMin(raceTime)), Num(60))

\* ------------------------------------------------------------ zones

\* Mutant: every zone's distance taken at the easy pace.
zonesOf_easyPaceOnly(weekly, pct, paces) ==
  LET totalTimeMin == Mul(weekly, paces.easy)
      easyTime == Div(Mul(totalTimeMin, pct.easy), Num(100))
      subTTime == Div(Mul(totalTimeMin, pct.subT), Num(100))
      hiTime == Div(Mul(totalTimeMin, pct.hi), Num(100))
  IN  [totalTimeMin |-> totalTimeMin,
       easy |-> [timeMin |-> easyTime, distKm |-> Div(easyTime, paces.easy)],
       subT |-> [timeMin |-> subTTime, distKm |-> Div(subTTime, paces.easy)],
       hi |-> [timeMin |-> hiTime, distKm |-> Div(hiTime, paces.easy)]]

\* The zones memo with the percentages scaled to add up to 100.
zonesOf_normalised(weekly, pct, paces) ==
  LET totalTimeMin == Mul(weekly, paces.easy)
      pctSum == Add(Add(pct.easy, pct.subT), pct.hi)
      easyTime == Div(Mul(totalTimeMin, pct.easy), pctSum)
      subTTime == Div(Mul(totalTimeMin, pct.subT), pctSum)
      hiTime == Div(Mul(totalTimeMin, pct.hi), pctSum)
      easyDist == Div(easyTime, paces.easy)
      subTDist == Div(subTTime, paces.subT)
      hiDistKm == Div(hiTime, paces.hi)
  IN  [totalTimeMin |-> totalTimeMin,
       easy |-> [timeMin |-> easyTime, distKm |-> easyDist],
       subT |-> [timeMin |-> subTTime, distKm |-> subTDist],
       hi |-> [timeMin |-> hiTime, distKm |-> hiDistKm]]

\* The zones memo: the time and distance budget of each zone.
zonesOf(weekly, pct, paces) ==
  LET totalTimeMin == Mul(weekly, paces.easy)
      easyTime == Div(Mul(totalTimeMin, pct.easy), Num(100))
      subTTime == Div(Mul(totalTimeMin, pct.subT), Num(100))
      hiTime == Div(Mul(totalTimeMin, pct.hi), Num(100))
      easyDist == Div(easyTime, paces.easy)
      subTDist == Div(subTTime, paces.subT)
      hiDistKm == Div(hiTime, paces.hi)
  IN  [totalTimeMin |-> totalTimeMin,
       easy |-> [timeMin |-> easyTime, distKm |-> easyDist],
       subT |-> [timeMin |-> subTTime, distKm |-> subTDist],
       hi |-> [timeMin |-> hiTime, distKm |-> hiDistKm]]

\* ------------------------------------------------------------ plan
\* z is a zones value; o is the options the plan memo reads:
\* [satHighIntensity, removeMon, removeFri, enableCycling, cyclingHours].

\* Mutant: Saturday always counted as a sub-threshold day.
numSubTDays_always3(o) == 3

numSubTDays(o) == IF o.satHighIntensity THEN 2 ELSE 3

subTDistPerDay(z, o) ==
  Div(z.subT.distKm, MathMax(Num(1), Num(numSubTDays(o))))

warmupCooldownPerSessionKm == 4

\* Mutant: Saturday counted as an intensity day only when it is high
\* intensity.
numIntensitySessions_satOnlyHi(o) == IF o.satHighIntensity THEN 3 ELSE 2

numIntensitySessions(o) == IF o.satHighIntensity THEN 3 ELSE 3

totalWUCDKm(o) == warmupCooldownPerSessionKm * numIntensitySessions(o)

\* Mutant: the free easy distance is not clamped at 0.
freeEasyDistKm_noClamp(z, o) == Sub(z.easy.distKm, Num(totalWUCDKm(o)))

freeEasyDistKm(z, o) ==
  MathMax(Num(0), Sub(z.easy.distKm, Num(totalWUCDKm(o))))

\* Mutant: a removed Friday is still counted.
easyDayCount_ignoreFri(o) == 4 - (IF o.removeMon THEN 1 ELSE 0)

easyDayCount(o) ==
  4 - (IF o.removeMon THEN 1 ELSE 0) - (IF o.removeFri THEN 1 ELSE 0)

denom(o) == Add(Num(easyDayCount(o)), Q(1, 2))

easyBlock(z, o) ==
  IF Gt(denom(o), Num(0)) THEN Div(freeEasyDistKm(z, o), denom(o)) ELSE Num(0)

\* Mutant: Sunday's long run at twice the easy block.
longRun_twice(z, o) == Mul(easyBlock(z, o), Num(2))

longRun(z, o) == Mul(easyBlock(z, o), Q(3, 2))

\* Mutant: the high-intensity budget split like the sub-threshold one.
hiDist_split(z) == Div(z.hi.distKm, Num(3))

hiDist(z) == z.hi.distKm

bikeEndurancePerDayH(o) ==
  IF o.enableCycling /\ Gt(o.cyclingHours, Num(0))
    THEN Div(Mul(o.cyclingHours, Q(3, 4)), Num(3))
    ELSE Num(0)

bikeSubTPerDayH(o) ==
  IF o.enableCycling /\ Gt(o.cyclingHours, Num(0))
    THEN Div(Mul(o.cyclingHours, Q(1, 4)), Num(2))
    ELSE Num(0)

Session(type, subtype, distOrTime) ==
  [type |-> type, subtype |-> subtype, distOrTime |-> distOrTime]

\* `${x.toFixed(1)} km` and `${x.toFixed(1)} h`
KmText(x) == ToFixed1(x) \o Chars(" km")

HoursText(x) == ToFixed1(x) \o Chars(" h")

\* The literal "2 km" of the warmup and cooldown sessions.
TwoKm == <<"2">> \o Chars(" km")

\* The spread of an optional bike session: ...(cond ? [session] : []).
bikeEnduranceSessions(o) ==
  IF o.enableCycling /\ Gt(bikeEndurancePerDayH(o), Num(0))
    THEN <<Session("Bike", "Endurance", HoursText(bikeEndurancePerDayH(o)))>>
    ELSE <<>>

bikeSubTSessions(o) ==
  IF o.enableCycling /\ Gt(bikeSubTPerDayH(o), Num(0))
    THEN <<Session("Bike", "SubT", HoursText(bikeSubTPerDayH(o)))>>
    ELSE <<>>

subTDaySessions(z, o) ==
  <<Session("Run", "Warmup", TwoKm),
    Session("Run", "SubT", KmText(subTDistPerDay(z, o))),
    Session("Run", "Cooldown", TwoKm)>>

Monday(z, o) ==
  [day |-> "Mon",
   sessions |-> IF o.removeMon THEN <<>>
                ELSE <<Session("Run", "Easy", KmText(easyBlock(z, o)))>>
                       \o bikeEnduranceSessions(o)]

Tuesday(z, o) ==
  [day |-> "Tue", sessions |-> subTDaySessions(z, o) \o bikeSubTSessions(o)]

Wednesday(z, o) ==
  [day |-> "Wed",
   sessions |-> <<Session("Run", "Easy", KmText(easyBlock(z, o)))>>
                  \o bikeEnduranceSessions(o)]

Thursday(z, o) ==
  [day |-> "Thu", sessions |-> subTDaySessions(z, o) \o bikeSubTSessions(o)]

Friday(z, o) ==
  [day |-> "Fri",
   sessions |-> IF o.removeFri THEN <<>>
                ELSE <<Session("Run", "Easy", KmText(easyBlock(z, o)))>>]

Saturday(z, o) ==
  IF o.satHighIntensity
    THEN [day |-> "Sat",
          sessions |-> <<Session("Run", "Warmup", TwoKm),
                         Session("Run", "High Intensity", KmText(hiDist(z))),
                         Session("Run", "Cooldown", TwoKm)>>]
    ELSE [day |-> "Sat", sessions |-> subTDaySessions(z, o)]

Sunday(z, o) ==
  [day |-> "Sun",
   sessions |-> <<Session("Run", "Long Run", KmText(longRun(z, o)))>>
                  \o bikeEnduranceSessions(o)]

\* Mutant: a day without sessions is not pushed.
planOf_skipRestDays(z, o) ==
  SelectSeq(<<Monday(z, o), Tuesday(z, o), Wednesday(z, o), Thursday(z, o),
              Friday(z, o), Saturday(z, o), Sunday(z, o)>>,
            LAMBDA d : d.sessions # <<>>)

\* The plan memo: the seven days pushed in order.
planOf(z, o) ==
  <<Monday(z, o), Tuesday(z, o), Wednesday(z, o), Thursday(z, o),
    Friday(z, o), Saturday(z, o), Sunday(z, o)>>

\* ------------------------------------------------------------ chart, totals

\* The chartData memo.
chartDataOf(z, o) ==
  <<[name |-> "Run Easy", hours |-> Div(z.easy.timeMin, Num(60))],
    [name |-> "Run SubT", hours |-> Div(z.subT.timeMin, Num(60))]>>
  \o (IF o.satHighIntensity /\ Gt(z.hi.timeMin, Num(0))
        THEN <<[name |-> "Run HI", hours |-> Div(z.hi.timeMin, Num(60))]>>
        ELSE <<>>)
  \o (IF o.enableCycling /\ Gt(o.cyclingHours, Num(0))
        THEN <<[name |-> "Bike Endurance",
                hours |-> Mul(o.cyclingHours, Q(3, 4))],
               [name |-> "Bike SubT",
                hours |-> Mul(o.cyclingHours, Q(1, 4))]>>
        ELSE <<>>)

\* All sessions of a plan, in the order plan.forEach / sessions.forEach
\* visits them.
RECURSIVE AllSessions(_)
AllSessions(p) ==
  IF p = <<>> THEN <<>> ELSE Head(p).sessions \o AllSessions(Tail(p))

\* The sum of parseFloat(distOrTime) over the sessions of the given type
\* whose subtype is one of subtypes, starting from 0.
RECURSIVE SumParsed(_, _, _)
SumParsed(ss, type, subtypes) ==
  IF ss = <<>> THEN Num(0)
  ELSE LET s == ss[Len(ss)]
           rest == SumParsed(SubSeq(ss, 1, Len(ss) - 1), type, subtypes)
       IN  IF s.type = type /\ s.subtype \in subtypes
             THEN Add(rest, ParseFloat(s.distOrTime))
             ELSE rest

EasySubtypes == {"Easy", "Long Run", "Warmup", "Cooldown"}

\* Mutant: the cycling hours added whether or not cycling is enabled.
totalsOf_cyclingAlways(p, z, o) ==
  LET runEasyKm == SumParsed(AllSessions(p), "Run", EasySubtypes)
      runSubTKm == SumParsed(AllSessions(p), "Run", {"SubT"})
      runHiKm == SumParsed(AllSessions(p), "Run", {"High Intensity"})
      bikeEnduranceH == IF o.enableCycling
                          THEN Mul(o.cyclingHours, Q(3, 4)) ELSE Num(0)
      bikeSubTH == IF o.enableCycling
                     THEN Mul(o.cyclingHours, Q(1, 4)) ELSE Num(0)
  IN  [runKm |-> Add(Add(runEasyKm, runSubTKm), runHiKm),
       runEasyKm |-> runEasyKm,
       runSubTKm |-> runSubTKm,
       runHiKm |-> runHiKm,
       bikeHours |-> Add(bikeEnduranceH, bikeSubTH),
       bikeEnduranceH |-> bikeEnduranceH,
       bikeSubTH |-> bikeSubTH,
       totalTimeH |-> Add(Div(z.totalTimeMin, Num(60)), o.cyclingHours)]

\* The totals memo.
totalsOf(p, z, o) ==
  LET runEasyKm == SumParsed(AllSessions(p), "Run", EasySubtypes)
      runSubTKm == SumParsed(AllSessions(p), "Run", {"SubT"})
      runHiKm == SumParsed(AllSessions(p), "Run", {"High Intensity"})
      bikeEnduranceH == IF o.enableCycling
                          THEN Mul(o.cyclingHours, Q(3, 4)) ELSE Num(0)
      bikeSubTH == IF o.enableCycling
                     THEN Mul(o.cyclingHours, Q(1, 4)) ELSE Num(0)
  IN  [runKm |-> Add(Add(runEasyKm, runSubTKm), runHiKm),
       runEasyKm |-> runEasyKm,
       runSubTKm |-> runSubTKm,
       runHiKm |-> runHiKm,
       bikeHours |-> Add(bikeEnduranceH, bikeSubTH),
       bikeEnduranceH |-> bikeEnduranceH,
       bikeSubTH |-> bikeSubTH,
       totalTimeH |-> Add(Div(z.totalTimeMin, Num(60)),
                          IF o.enableCycling THEN o.cyclingHours ELSE Num(0))]

\* ------------------------------------------------------------ state

VARIABLES
  weeklyMileage,     \* number
  raceDistance,      \* number
  raceTime,          \* string
  vdot,              \* <<>> for null, <<x>> for the number x
  pacesNum,          \* [easy, subT, hi]: numbers, min/km
  pacesStr,          \* [easy, subT, hi]: strings
  satHighIntensity,
  advancedOptions,
  removeMon,
  removeFri,
  enableCycling,
  cyclingHours,      \* number
  percentages        \* [easy, subT, hi]: numbers, %

vars ==
  <<weeklyMileage, raceDistance, raceTime, vdot, pacesNum, pacesStr,
    satHighIntensity, advancedOptions, removeMon, removeFri, enableCycling,
    cyclingHours, percentages>>

\* What the user types.  A number input yields Number(e.target.value), a
\* finite number; the model types integers.  The first NumWeekly weekly
\* distances and the first NumHours cycling hours of the lists are typed.
NumWeekly == 3

WeeklyChoices == <<10, 0, -10, 100>>

WeeklyInputs == {Num(WeeklyChoices[i]) : i \in 1..NumWeekly}

NumHours == 2

HoursChoices == <<10, -3, 1, 4>>

HoursInputs == {Num(HoursChoices[i]) : i \in 1..NumHours}

PctInputs == {Num(50)}

RaceDistanceInputs == {Num(10), Num(0)}

RaceTimeInputs == {<<"4", "0", ":", "0", "0">>, <<"0", ":", "0", "0">>}

ZoneNames == {"easy", "subT", "hi"}

\* The percentages the effect on satHighIntensity sets.
presetPercentages(sat) ==
  IF sat THEN [easy |-> Num(75), subT |-> Num(18), hi |-> Num(7)]
  ELSE [easy |-> Num(75), subT |-> Num(25), hi |-> Num(0)]

\* The useState initial values; the effect on satHighIntensity has run once
\* at mount and set the percentages it already had.
Init ==
  /\ weeklyMileage = Num(60)
  /\ raceDistance = Num(10)
  /\ raceTime = <<"4", "0", ":", "0", "0">>
  /\ vdot = <<>>
  /\ pacesNum = [easy |-> Num(5), subT |-> Num(4), hi |-> Q(7, 2)]
  /\ pacesStr = [easy |-> <<"5", ":", "0", "0">> \o Chars(" min/km"),
                 subT |-> <<"4", ":", "0", "0">> \o Chars(" min/km"),
                 hi |-> <<"3", ":", "3", "0">> \o Chars(" min/km")]
  /\ satHighIntensity = FALSE
  /\ advancedOptions = FALSE
  /\ removeMon = FALSE
  /\ removeFri = FALSE
  /\ enableCycling = FALSE
  /\ cyclingHours = Num(0)
  /\ percentages = presetPercentages(FALSE)

\* ------------------------------------------------------------ memos

options ==
  [satHighIntensity |-> satHighIntensity, removeMon |-> removeMon,
   removeFri |-> removeFri, enableCycling |-> enableCycling,
   cyclingHours |-> cyclingHours]

zones == zonesOf(weeklyMileage, percentages, pacesNum)

plan == planOf(zones, options)

chartData == chartDataOf(zones, options)

totals == totalsOf(plan, zones, options)

\* ------------------------------------------------------------ handlers

\* Weekly run goal input.
SetWeeklyMileage ==
  /\ \E x \in WeeklyInputs : weeklyMileage' = x
  /\ UNCHANGED <<raceDistance, raceTime, vdot, pacesNum, pacesStr,
                 satHighIntensity, advancedOptions, removeMon, removeFri,
                 enableCycling, cyclingHours, percentages>>

\* Race distance input.
SetRaceDistance ==
  /\ \E x \in RaceDistanceInputs : raceDistance' = x
  /\ UNCHANGED <<weeklyMileage, raceTime, vdot, pacesNum, pacesStr,
                 satHighIntensity, advancedOptions, removeMon, removeFri,
                 enableCycling, cyclingHours, percentages>>

\* Race time input.
SetRaceTime ==
  /\ \E t \in RaceTimeInputs : raceTime' = t
  /\ UNCHANGED <<weeklyMileage, raceDistance, vdot, pacesNum, pacesStr,
                 satHighIntensity, advancedOptions, removeMon, removeFri,
                 enableCycling, cyclingHours, percentages>>

\* Mutant: the button stores the score and the numeric paces but leaves the
\* displayed pace strings as they were.
calculateVdot_keepStr ==
  /\ LET e == vdotEstimate(raceDistance, raceTime)
     IN  /\ vdot' = <<e.vdot>>
         /\ pacesNum' = e.pacesNum
  /\ UNCHANGED <<weeklyMileage, raceDistance, raceTime, satHighIntensity,
                 advancedOptions, removeMon, removeFri, enableCycling,
                 cyclingHours, percentages, pacesStr>>

\* The "Calculate VDOT & Paces" button.
calculateVdot ==
  /\ LET e == vdotEstimate(raceDistance, raceTime)
     IN  /\ vdot' = <<e.vdot>>
         /\ pacesNum' = e.pacesNum
         /\ pacesStr' = e.pacesStr
  /\ UNCHANGED <<weeklyMileage, raceDistance, raceTime, satHighIntensity,
                 advancedOptions, removeMon, removeFri, enableCycling,
                 cyclingHours, percentages>>

\* Mutant: the checkbox without the effect on the percentages.
ToggleSatHighIntensity_noReset ==
  /\ satHighIntensity' = ~satHighIntensity
  /\ UNCHANGED <<weeklyMileage, raceDistance, raceTime, vdot, pacesNum,
                 pacesStr, advancedOptions, removeMon, removeFri,
                 enableCycling, cyclingHours, percentages>>

\* The "Saturday High Intensity" checkbox, with the effect its change
\* triggers: React runs the effect after the render that follows the click
\* and before the next event, so the two are one step.
ToggleSatHighIntensity ==
  /\ satHighIntensity' = ~satHighIntensity
  /\ percentages' = presetPercentages(~satHighIntensity)
  /\ UNCHANGED <<weeklyMileage, raceDistance, raceTime, vdot, pacesNum,
                 pacesStr, advancedOptions, removeMon, removeFri,
                 enableCycling, cyclingHours>>

\* The "Show / Hide Advanced Options" button.
ToggleAdvancedOptions ==
  /\ advancedOptions' = ~advancedOptions
  /\ UNCHANGED <<weeklyMileage, raceDistance, raceTime, vdot, pacesNum,
                 pacesStr, satHighIntensity, removeMon, removeFri,
                 enableCycling, cyclingHours, percentages>>

\* A percentage input; rendered only with the advanced options shown.
SetPercentage ==
  /\ advancedOptions
  /\ \E zone \in ZoneNames, x \in PctInputs :
       percentages' = [percentages EXCEPT ![zone] = x]
  /\ UNCHANGED <<weeklyMileage, raceDistance, raceTime, vdot, pacesNum,
                 pacesStr, satHighIntensity, advancedOptions, removeMon,
                 removeFri, enableCycling, cyclingHours>>

\* The "Add Cycling" checkbox; rendered only with the advanced options shown.
ToggleEnableCycling ==
  /\ advancedOptions
  /\ enableCycling' = ~enableCycling
  /\ UNCHANGED <<weeklyMileage, raceDistance, raceTime, vdot, pacesNum,
                 pacesStr, satHighIntensity, advancedOptions, removeMon,
                 removeFri, cyclingHours, percentages>>

\* The weekly cycling hours input; rendered only with cycling enabled.
SetCyclingHours ==
  /\ advancedOptions
  /\ enableCycling
  /\ \E x \in HoursInputs : cyclingHours' = x
  /\ UNCHANGED <<weeklyMileage, raceDistance, raceTime, vdot, pacesNum,
                 pacesStr, satHighIntensity, advancedOptions, removeMon,
                 removeFri, enableCycling, percentages>>

\* The "Remove Monday Run" checkbox.
ToggleRemoveMon ==
  /\ advancedOptions
  /\ removeMon' = ~removeMon
  /\ UNCHANGED <<weeklyMileage, raceDistance, raceTime, vdot, pacesNum,
                 pacesStr, satHighIntensity, advancedOptions, removeFri,
                 enableCycling, cyclingHours, percentages>>

\* The "Remove Friday Run" checkbox.
ToggleRemoveFri ==
  /\ advancedOptions
  /\ removeFri' = ~removeFri
  /\ UNCHANGED <<weeklyMileage, raceDistance, raceTime, vdot, pacesNum,
                 pacesStr, satHighIntensity, advancedOptions, removeMon,
                 enableCycling, cyclingHours, percentages>>

Next ==
  \/ SetWeeklyMileage
  \/ SetRaceDistance
  \/ SetRaceTime
  \/ calculateVdot
  \/ ToggleSatHighIntensity
  \/ ToggleAdvancedOptions
  \/ SetPercentage
  \/ ToggleEnableCycling
  \/ SetCyclingHours
  \/ ToggleRemoveMon
  \/ ToggleRemoveFri

Spec == Init /\ [][Next]_vars

\* ------------------------------------------------------------ race inputs
\* The estimate over a wider range of race results: the race inputs are
\* typed from the sets below and the button is pressed, the rest of the
\* form staying as it starts.

\* Race times m:ss with m = 0 or 38..38 + NumRaceMinutes, and text that is
\* no time.
NumRaceMinutes == 2

RaceMinutes == {0} \cup (38..(38 + NumRaceMinutes))

RaceSeconds == {0, 29, 30, 55, 57, 59}

TimeText(m, s) == NatToChars(m) \o <<":">> \o PadStart2(NatToChars(s))

RaceTimeTexts ==
  {TimeText(m, s) : m \in RaceMinutes, s \in RaceSeconds}
    \cup {<<"a", "b", "c">>, <<"4", "0">>}

RaceDistances == {Num(0), Num(5), Num(10), Q(211, 10)}

\* Race distance input.
TypeRaceDistance ==
  /\ \E x \in RaceDistances : raceDistance' = x
  /\ UNCHANGED <<weeklyMileage, raceTime, vdot, pacesNum, pacesStr,
                 satHighIntensity, advancedOptions, removeMon, removeFri,
                 enableCycling, cyclingHours, percentages>>

\* Race time input.
TypeRaceTime ==
  /\ \E t \in RaceTimeTexts : raceTime' = t
  /\ UNCHANGED <<weeklyMileage, raceDistance, vdot, pacesNum, pacesStr,
                 satHighIntensity, advancedOptions, removeMon, removeFri,
                 enableCycling, cyclingHours, percentages>>

RaceNext ==
  \/ TypeRaceDistance
  \/ TypeRaceTime
  \/ calculateVdot

RaceSpec == Init /\ [][RaceNext]_vars

\* ------------------------------------------------------------ claims

DayNames == <<"Mon", "Tue", "Wed", "Thu", "Fri", "Sat", "Sun">>

WithSat(sat) == [options EXCEPT !.satHighIntensity = sat]

\* The sessions of the given type and subtype among ss.
Pick(ss, type, subtype) ==
  SelectSeq(ss, LAMBDA s : s.type = type /\ s.subtype = subtype)

RunSessions(ss) == SelectSeq(ss, LAMBDA s : s.type = "Run")

BikeSessions(ss) == SelectSeq(ss, LAMBDA s : s.type = "Bike")

\* C1: under every input the week plan is exactly seven DayPlans whose days
\* are Mon, Tue, Wed, Thu, Fri, Sat, Sun in this order; a removed day stays
\* in the plan, with an empty session list.
C1_SevenDaysInOrder ==
  LET p == plan
  IN  /\ Len(p) = 7
      /\ [i \in 1..Len(p) |-> p[i].day] = DayNames
      /\ removeMon => p[1].sessions = <<>>
      /\ removeFri => p[5].sessions = <<>>

C1_Witness ==
  /\ removeMon
  /\ removeFri
  /\ satHighIntensity
  /\ enableCycling
  /\ Gt(cyclingHours, Num(0))
  /\ Len(plan) = 7
  /\ plan[1] = [day |-> "Mon", sessions |-> <<>>]
  /\ plan[5] = [day |-> "Fri", sessions |-> <<>>]

\* C2: Tuesday and Thursday each start with Warmup 2 km, SubT, Cooldown 2 km,
\* the SubT distance being the sub-threshold distance budget divided by 3
\* with satHighIntensity off and by 2 with it on; so for one positive budget
\* the Tue/Thu distance with satHighIntensity on is the larger one.
C2_TueThuSubT ==
  LET z == zones
      budget == z.subT.distKm
      perDay == Div(budget, Num(IF satHighIntensity THEN 2 ELSE 3))
      tueThu(o) == {Tuesday(z, o), Thursday(z, o)}
      p == plan
  IN  /\ \A d \in {p[2], p[4]} :
           /\ Len(d.sessions) >= 3
           /\ SubSeq(d.sessions, 1, 3)
                = <<Session("Run", "Warmup", TwoKm),
                    Session("Run", "SubT", KmText(perDay)),
                    Session("Run", "Cooldown", TwoKm)>>
      /\ subTDistPerDay(z, options) = perDay
      /\ Gt(budget, Num(0)) =>
           /\ Gt(subTDistPerDay(z, WithSat(TRUE)),
                 subTDistPerDay(z, WithSat(FALSE)))
           /\ \A on \in tueThu(WithSat(TRUE)), off \in tueThu(WithSat(FALSE)) :
                Le(ParseFloat(off.sessions[2].distOrTime),
                   ParseFloat(on.sessions[2].distOrTime))

C2_Witness ==
  /\ satHighIntensity
  /\ zones.subT.distKm = Q(27, 2)
  /\ plan[2].sessions[2] = Session("Run", "SubT", KmText(Q(27, 4)))
  /\ planOf(zones, WithSat(FALSE))[4].sessions[2]
       = Session("Run", "SubT", KmText(Q(9, 2)))

\* C3: Saturday's run sessions are Warmup 2 km, one intensity session,
\* Cooldown 2 km: High Intensity over the whole high-intensity distance
\* budget when satHighIntensity is on, otherwise the SubT session of Tuesday
\* and Thursday; no High Intensity session is in the week unless
\* satHighIntensity is on.
C3_Saturday ==
  LET p == plan
      sat == p[6]
      ss == AllSessions(p)
  IN  /\ sat.sessions = RunSessions(sat.sessions)
      /\ Len(sat.sessions) = 3
      /\ sat.sessions[1] = Session("Run", "Warmup", TwoKm)
      /\ sat.sessions[3] = Session("Run", "Cooldown", TwoKm)
      /\ satHighIntensity =>
           sat.sessions[2]
             = Session("Run", "High Intensity", KmText(zones.hi.distKm))
      /\ ~satHighIntensity =>
           /\ sat.sessions[2].subtype = "SubT"
           /\ sat.sessions[2] = p[2].sessions[2]
           /\ sat.sessions[2] = p[4].sessions[2]
      /\ ~satHighIntensity =>
           \A i \in 1..Len(ss) : ss[i].subtype # "High Intensity"

C3_Witness ==
  /\ satHighIntensity
  /\ Gt(zones.hi.distKm, Num(0))
  /\ IsFinite(zones.hi.distKm)
  /\ plan[6].sessions[2]
       = Session("Run", "High Intensity", KmText(zones.hi.distKm))
  /\ ParseFloat(plan[6].sessions[2].distOrTime) = Num(6)

\* The days of a plan that hold a SubT or a High Intensity run.
IntensityDays(p) ==
  {i \in 1..Len(p) :
     \E j \in 1..Len(p[i].sessions) :
       /\ p[i].sessions[j].type = "Run"
       /\ p[i].sessions[j].subtype \in {"SubT", "High Intensity"}}

\* C4: the warmup/cooldown distance taken off the easy budget is 4 km times
\* the number of intensity days of the plan, and is the total distance of
\* the plan's Warmup and Cooldown sessions, with satHighIntensity on and
\* off (both are reachable); it is taken off the easy budget alone: the SubT
\* sessions share the whole sub-threshold budget and the High Intensity
\* session has the whole high-intensity budget.
C4_WarmupCooldownCost ==
  LET z == zones
      o == options
      p == plan
      ss == AllSessions(p)
      subT == Pick(ss, "Run", "SubT")
      hi == Pick(ss, "Run", "High Intensity")
      cost == Num(totalWUCDKm(o))
  IN  /\ totalWUCDKm(o) = 4 * Cardinality(IntensityDays(p))
      /\ cost = SumParsed(ss, "Run", {"Warmup", "Cooldown"})
      /\ ~IsNaN(z.easy.distKm) =>
           freeEasyDistKm(z, o)
             = (IF Lt(z.easy.distKm, cost) THEN Num(0)
                ELSE Sub(z.easy.distKm, cost))
      /\ \A i \in 1..Len(subT) :
           subT[i].distOrTime = KmText(Div(z.subT.distKm, Num(Len(subT))))
      /\ \A i \in 1..Len(hi) : hi[i].distOrTime = KmText(z.hi.distKm)

C4_Witness ==
  /\ satHighIntensity
  /\ plan[6].sessions[2].subtype = "High Intensity"
  /\ zones.easy.distKm = Num(45)
  /\ totalWUCDKm(options) = 12
  /\ freeEasyDistKm(zones, options) = Num(33)
  /\ SumParsed(AllSessions(plan), "Run", {"Warmup", "Cooldown"}) = Num(12)
  /\ Cardinality(IntensityDays(plan)) = 3

\* C5: the free easy distance is max(0, easy budget - warmup/cooldown
\* distance) and never negative; the easy block is the free easy distance
\* divided by (4 - removed days + 0.5); every Mon, Wed, Fri that is not
\* removed has exactly one Easy run, of one easy block; Sunday always has a
\* Long Run of 1.5 easy blocks; Wednesday and Sunday are there under every
\* option (Wednesday is always among the kept days below).
C5_EasyBlocks ==
  LET z == zones
      p == plan
      diff == Sub(z.easy.distKm, Num(12))
      free == IF Lt(diff, Num(0)) THEN Num(0) ELSE diff
      count == 4 - (IF removeMon THEN 1 ELSE 0) - (IF removeFri THEN 1 ELSE 0)
      block == Div(free, Q(2 * count + 1, 2))
      easyRun == Session("Run", "Easy", KmText(block))
      kept == {3} \cup (IF removeMon THEN {} ELSE {1})
                \cup (IF removeFri THEN {} ELSE {5})
  IN  /\ freeEasyDistKm(z, options) = free
      /\ ~Lt(freeEasyDistKm(z, options), Num(0))
      /\ easyBlock(z, options) = block
      /\ \A i \in kept : RunSessions(p[i].sessions) = <<easyRun>>
      /\ RunSessions(p[7].sessions)
           = <<Session("Run", "Long Run", KmText(Mul(block, Q(3, 2))))>>

C5_Witness ==
  /\ removeFri
  /\ ~removeMon
  /\ zones.easy.distKm = Num(45)
  /\ easyBlock(zones, options) = Q(66, 7)
  /\ plan[1].sessions[1] = Session("Run", "Easy", <<"9", ".", "4">> \o Chars(" km"))
  /\ plan[7].sessions[1]
       = Session("Run", "Long Run", <<"1", "4", ".", "1">> \o Chars(" km"))

\* A state where the clamp of the free easy distance at 0 acts.
C5_WitnessClamped ==
  /\ Lt(zones.easy.distKm, Num(12))
  /\ Gt(zones.easy.distKm, Num(0))
  /\ freeEasyDistKm(zones, options) = Num(0)

\* C6: a removed Monday (Friday) has an empty session list, no run and no
\* bike session; for each of the four combinations of removeMon and
\* removeFri (all are reachable) the divisor is 4.5, 3.5 or 2.5 and the
\* unrounded Easy distances of the remaining easy days plus the Long Run
\* distance are exactly the free easy distance.
C6_RemovedDays ==
  LET z == zones
      o == options
      p == plan
      easyRuns == Pick(AllSessions(p), "Run", "Easy")
      removed == (IF removeMon THEN 1 ELSE 0) + (IF removeFri THEN 1 ELSE 0)
  IN  /\ removeMon => p[1].sessions = <<>>
      /\ removeFri => p[5].sessions = <<>>
      /\ Len(easyRuns) = 3 - removed
      /\ denom(o) = Q(9 - 2 * removed, 2)
      /\ Add(Mul(Num(Len(easyRuns)), easyBlock(z, o)), longRun(z, o))
           = freeEasyDistKm(z, o)

C6_Witness ==
  /\ removeMon
  /\ removeFri
  /\ enableCycling
  /\ Gt(cyclingHours, Num(0))
  /\ plan[1].sessions = <<>>
  /\ plan[5].sessions = <<>>
  /\ freeEasyDistKm(zones, options) = Num(33)
  /\ easyBlock(zones, options) = Q(66, 5)
  /\ longRun(zones, options) = Q(99, 5)

\* |x| for a number x.
AbsNum(x) == IF Lt(x, Num(0)) THEN Neg(x) ELSE x

\* |x - y| <= n * tol.
Within(x, y, n, tol) == Le(AbsNum(Sub(x, y)), Mul(Num(n), tol))

\* C7: with cycling enabled and weekly cycling hours H > 0, each of Mon, Wed
\* and Sun has one Bike Endurance session of 0.75*H/3 hours and each of Tue
\* and Thu one Bike SubT session of 0.25*H/2 hours, after all run sessions
\* of the day, which stay as they are without cycling; Fri and Sat have no
\* bike session; with cycling disabled or H <= 0 the plan has no bike
\* session.
C7_BikeSessions ==
  LET p == plan
      runsOnly == planOf(zones, [options EXCEPT !.enableCycling = FALSE])
      endurance ==
        Session("Bike", "Endurance",
                HoursText(Div(Mul(Q(3, 4), cyclingHours), Num(3))))
      subT ==
        Session("Bike", "SubT",
                HoursText(Div(Mul(Q(1, 4), cyclingHours), Num(2))))
  IN  IF enableCycling /\ Gt(cyclingHours, Num(0))
        THEN /\ \A i \in {1, 3, 7} :
                  p[i].sessions = runsOnly[i].sessions \o <<endurance>>
             /\ \A i \in {2, 4} :
                  p[i].sessions = runsOnly[i].sessions \o <<subT>>
             /\ \A i \in {5, 6} : BikeSessions(p[i].sessions) = <<>>
             /\ \A i \in 1..7 :
                  RunSessions(runsOnly[i].sessions) = runsOnly[i].sessions
        ELSE \A i \in 1..7 : BikeSessions(p[i].sessions) = <<>>

\* C7, where the code keeps it: the same statement holds in every state in
\* which Monday is not removed.
C7_HoldsWithMonday == ~removeMon => C7_BikeSessions

\* C8: for weekly cycling hours >= 0 the Totals' bike Endurance hours and
\* bike SubT hours are the sums of the Endurance and SubT bike session
\* amounts of the plan, up to the rounding of each session to one decimal
\* (0.05 h a session).
C8_BikeTotalsFromPlan ==
  LET ss == AllSessions(plan)
      t == totals
  IN  Le(Num(0), cyclingHours) =>
        /\ Within(t.bikeEnduranceH, SumParsed(ss, "Bike", {"Endurance"}),
                  Len(Pick(ss, "Bike", "Endurance")), Q(1, 20))
        /\ Within(t.bikeSubTH, SumParsed(ss, "Bike", {"SubT"}),
                  Len(Pick(ss, "Bike", "SubT")), Q(1, 20))

\* C8, where the code keeps it: the same statement holds in every state in
\* which Monday is not removed.
C8_HoldsWithMonday == ~removeMon => C8_BikeTotalsFromPlan

\* C9: for a weekly distance >= 0 the run sessions of the plan summed by
\* bucket (Easy, Long Run, Warmup, Cooldown; SubT; High Intensity) give the
\* zone distance budgets the plan was made from, within 0.1 km for each
\* session of the bucket.
C9_RunTotalsMatchBudgets ==
  LET ss == AllSessions(plan)
      t == totals
      z == zones
      count(subtypes) ==
        Len(SelectSeq(ss, LAMBDA s : s.type = "Run" /\ s.subtype \in subtypes))
  IN  Le(Num(0), weeklyMileage) =>
        /\ Within(t.runEasyKm, z.easy.distKm, count(EasySubtypes), Q(1, 10))
        /\ Within(t.runSubTKm, z.subT.distKm, count({"SubT"}), Q(1, 10))
        /\ Within(t.runHiKm, z.hi.distKm, count({"High Intensity"}), Q(1, 10))

\* C9, where the code keeps it: the sum of a bucket is within the rounding
\* of its sessions of the budget when the paces are finite and positive, the
\* easy budget covers the warmup/cooldown distance, and the high-intensity
\* budget is zero unless Saturday is high intensity.
C9_HoldsWhenBudgetsCoverPlan ==
  LET z == zones
  IN  (/\ \A zone \in ZoneNames :
             IsFinite(pacesNum[zone]) /\ Gt(pacesNum[zone], Num(0))
       /\ Le(Num(12), z.easy.distKm)
       /\ ~satHighIntensity => z.hi.distKm = Num(0))
        => C9_RunTotalsMatchBudgets

\* C10: totalTimeMinutes = weekly distance * easy pace; for each zone
\* timeMinutes = totalTimeMinutes * percentage / 100 and distanceKm =
\* timeMinutes / the zone's pace, the percentages used as they are; so for
\* every zone whose pace is a positive (finite) number, distanceKm * pace =
\* timeMinutes.
C10_ZoneAllocation ==
  LET z == zones
      total == Mul(weeklyMileage, pacesNum.easy)
  IN  /\ z.totalTimeMin = total
      /\ \A zone \in ZoneNames :
           /\ z[zone].timeMin = Div(Mul(total, percentages[zone]), Num(100))
           /\ z[zone].distKm = Div(z[zone].timeMin, pacesNum[zone])
           /\ IsFinite(pacesNum[zone]) /\ Gt(pacesNum[zone], Num(0)) =>
                Mul(z[zone].distKm, pacesNum[zone]) = z[zone].timeMin

\* Paces from an estimate, percentages that add up to 150.
C10_Witness ==
  /\ vdot = <<Num(40)>>
  /\ pacesNum = [easy |-> Num(5), subT |-> Num(4), hi |-> Q(10, 3)]
  /\ weeklyMileage = Num(60)
  /\ percentages = [easy |-> Num(75), subT |-> Num(25), hi |-> Num(50)]
  /\ zones.totalTimeMin = Num(300)
  /\ zones.hi = [timeMin |-> Num(150), distKm |-> Num(45)]
  /\ zones.subT = [timeMin |-> Num(75), distKm |-> Q(75, 4)]

\* C11: for a weekly distance >= 0, non-negative percentages with any sum
\* and positive (finite) paces, the three zone distances, each multiplied
\* by its own pace, add up to totalTimeMinutes * (easy% + subT% + hi%) / 100.
C11_TimeLinearity ==
  LET z == zones
      pctSum == Add(Add(percentages.easy, percentages.subT), percentages.hi)
      timeOfDistances ==
        Add(Add(Mul(z.easy.distKm, pacesNum.easy),
                Mul(z.subT.distKm, pacesNum.subT)),
            Mul(z.hi.distKm, pacesNum.hi))
  IN  (/\ Le(Num(0), weeklyMileage)
       /\ \A zone \in ZoneNames :
            /\ Le(Num(0), percentages[zone])
            /\ IsFinite(pacesNum[zone])
            /\ Gt(pacesNum[zone], Num(0)))
        => timeOfDistances = Div(Mul(z.totalTimeMin, pctSum), Num(100))

\* Three different paces and percentages that add up to 125: the distances
\* account for 375 of 300 minutes.
C11_Witness ==
  /\ weeklyMileage = Num(60)
  /\ pacesNum = [easy |-> Num(5), subT |-> Num(4), hi |-> Q(10, 3)]
  /\ percentages = [easy |-> Num(50), subT |-> Num(25), hi |-> Num(50)]
  /\ zones.totalTimeMin = Num(300)
  /\ zones.easy.distKm = Num(30)
  /\ zones.subT.distKm = Q(75, 4)
  /\ zones.hi.distKm = Num(45)

\* The distance a run session shows, as a number.
ShownKm(s) == ParseFloat(s.distOrTime)

\* C12: when a zone's pace is zero the allocator guards the division: the
\* zone's distance is zero, not a non-finite value, and no non-finite
\* distance reaches a session of the week plan.
C12_ZeroPaceGuarded ==
  LET z == zones
      runs == RunSessions(AllSessions(plan))
  IN  (\E zone \in ZoneNames : pacesNum[zone] = Num(0)) =>
        /\ \A zone \in ZoneNames :
             pacesNum[zone] = Num(0) => z[zone].distKm = Num(0)
        /\ \A i \in 1..Len(runs) : IsFinite(ShownKm(runs[i]))

\* C12, where the code keeps it: with finite paces, none of them zero, every
\* zone distance and every distance shown in the plan is finite.
C12_FiniteWithNonZeroPaces ==
  LET z == zones
      runs == RunSessions(AllSessions(plan))
  IN  (\A zone \in ZoneNames :
         IsFinite(pacesNum[zone]) /\ pacesNum[zone] # Num(0)) =>
        /\ \A zone \in ZoneNames : IsFinite(z[zone].distKm)
        /\ \A i \in 1..Len(runs) : IsFinite(ShownKm(runs[i]))

\* C13: when the parsed race time is <= 0 minutes or the resulting speed is
\* zero, the estimation reports an error and leaves the stored fitness score
\* and numeric paces unchanged; no step stores a non-finite pace.
C13_EstimateRejected ==
  [][/\ (\/ Le(raceTotalMin(raceTime), Num(0))
         \/ raceSpeed(raceDistance, raceTime) = Num(0))
          => (vdot' = vdot /\ pacesNum' = pacesNum)
     /\ \A zone \in ZoneNames : IsFinite(pacesNum'[zone])]_vars

\* C13, where the code keeps it: from a positive race distance and a
\* positive race time the estimate stores finite, positive paces and a
\* finite score.
C13_FiniteFromPositiveRace ==
  [][(/\ calculateVdot
      /\ Gt(raceDistance, Num(0))
      /\ Gt(raceTotalMin(raceTime), Num(0)))
       => /\ IsFinite(vdot'[1])
          /\ \A zone \in ZoneNames :
               IsFinite(pacesNum'[zone]) /\ Gt(pacesNum'[zone], Num(0))]_vars

\* The subtypes of the run sessions whose distance comes from a zone budget.
BudgetSubtypes == {"Easy", "Long Run", "SubT", "High Intensity"}

\* The (type, subtype) pairs of each day of a plan, in order.
Structure(p) ==
  [i \in 1..Len(p) |->
     [j \in 1..Len(p[i].sessions) |->
        <<p[i].sessions[j].type, p[i].sessions[j].subtype>>]]

\* C14: for a weekly distance of zero or less the plan is still well formed
\* (seven days, the session structure of the same options at the initial
\* weekly distance) and every budget-derived distance (Easy, Long Run, SubT,
\* High Intensity) is zero, none negative.  Stated for finite, positive
\* paces, where no distance is NaN.
C14_NonPositiveWeekly ==
  LET p == plan
      runs == RunSessions(AllSessions(p))
      reference ==
        planOf(zonesOf(Num(60), percentages, pacesNum), options)
  IN  (/\ Le(weeklyMileage, Num(0))
       /\ \A zone \in ZoneNames :
            IsFinite(pacesNum[zone]) /\ Gt(pacesNum[zone], Num(0)))
        => /\ Len(p) = 7
           /\ [i \in 1..Len(p) |-> p[i].day] = DayNames
           /\ Structure(p) = Structure(reference)
           /\ \A i \in 1..Len(runs) :
                runs[i].subtype \in BudgetSubtypes =>
                  ShownKm(runs[i]) = Num(0)

\* C14, where the code keeps it: at a weekly distance of exactly zero.
C14_ZeroWeekly ==
  weeklyMileage = Num(0) => C14_NonPositiveWeekly

\* C14: a negative weekly distance leaves the plan well formed and the
\* distances of the easy bucket at zero; only the SubT and High Intensity
\* distances follow the negative budget.
C14_NegativeWeeklyStructure ==
  LET p == plan
      runs == RunSessions(AllSessions(p))
      reference ==
        planOf(zonesOf(Num(60), percentages, pacesNum), options)
  IN  (/\ Le(weeklyMileage, Num(0))
       /\ \A zone \in ZoneNames :
            IsFinite(pacesNum[zone]) /\ Gt(pacesNum[zone], Num(0)))
        => /\ Len(p) = 7
           /\ Structure(p) = Structure(reference)
           /\ \A i \in 1..Len(runs) :
                runs[i].subtype \in {"Easy", "Long Run"} =>
                  ShownKm(runs[i]) = Num(0)

\* C15: with weekly distance 60, percentages 75/25/0, paces 5.0/4.0/3.5, no
\* removed day and satHighIntensity off: total time 300 min, easy budget
\* 225 min / 45 km, sub-threshold budget 75 min / 18.75 km, 6.25 km of SubT
\* on each of Tue, Thu and Sat, warmup/cooldown cost 12 km, free easy
\* distance 33 km, easy block 33 / 4.5 km, Sunday's long run 11.0 km.
C15_WorkedExample ==
  LET z == zones
      o == options
      p == plan
  IN  (/\ weeklyMileage = Num(60)
       /\ percentages = [easy |-> Num(75), subT |-> Num(25), hi |-> Num(0)]
       /\ pacesNum = [easy |-> Num(5), subT |-> Num(4), hi |-> Q(7, 2)]
       /\ ~removeMon
       /\ ~removeFri
       /\ ~satHighIntensity)
        => /\ z.totalTimeMin = Num(300)
           /\ z.easy = [timeMin |-> Num(225), distKm |-> Num(45)]
           /\ z.subT = [timeMin |-> Num(75), distKm |-> Q(75, 4)]
           /\ subTDistPerDay(z, o) = Q(25, 4)
           /\ \A i \in {2, 4, 6} :
                p[i].sessions[2]
                  = Session("Run", "SubT", <<"6", ".", "3">> \o Chars(" km"))
           /\ totalWUCDKm(o) = 12
           /\ freeEasyDistKm(z, o) = Num(33)
           /\ easyBlock(z, o) = Div(Num(33), Q(9, 2))
           /\ longRun(z, o) = Num(11)
           /\ p[7].sessions[1]
                = Session("Run", "Long Run",
                          <<"1", "1", ".", "0">> \o Chars(" km"))

\* The example's inputs in a state reached by edits: the weekly distance set
\* back to 60 with cycling switched on.
C15_Witness ==
  /\ weeklyMileage = Num(60)
  /\ percentages = [easy |-> Num(75), subT |-> Num(25), hi |-> Num(0)]
  /\ pacesNum = [easy |-> Num(5), subT |-> Num(4), hi |-> Q(7, 2)]
  /\ ~removeMon
  /\ ~removeFri
  /\ ~satHighIntensity
  /\ enableCycling
  /\ cyclingHours = Num(10)
  /\ plan[7].sessions[1].distOrTime = <<"1", "1", ".", "0">> \o Chars(" km")
  /\ plan[6].sessions[2].distOrTime = <<"6", ".", "3">> \o Chars(" km")

\* The minutes and the seconds field of a text "m:ss min/km".
PaceTextMinutes(text) == SplitColon(text)[1]

PaceTextSeconds(text) == SubSeq(SplitColon(text)[2], 1, 2)

AllDigits(s) == s # <<>> /\ \A i \in 1..Len(s) : IsDigit(s[i])

\* C16: for every non-negative (finite) pace the formatted pace has a
\* seconds field between 00 and 59; when the seconds round to 60 the minutes
\* go up by one and the seconds become 00; so minutes * 60 + seconds of the
\* text is the pace in seconds rounded to the nearest second.
C16_FormatPaceCarry ==
  \A zone \in ZoneNames :
    LET pace == pacesNum[zone]
        text == formatPace(pace)
        parts == SplitColon(text)
        mm == PaceTextMinutes(text)
        ss == PaceTextSeconds(text)
        whole == MathFloor(pace)
        rounded == MathRound(Mul(Sub(pace, whole), Num(60)))
    IN  (IsFinite(pace) /\ Le(Num(0), pace)) =>
          /\ Len(parts) = 2
          /\ parts[2] = ss \o Chars(" min/km")
          /\ AllDigits(mm)
          /\ Len(ss) = 2
          /\ AllDigits(ss)
          /\ DigitsToNat(ss) \in 0..59
          /\ rounded = Num(60) =>
               /\ Num(DigitsToNat(mm)) = Add(whole, Num(1))
               /\ ss = <<"0", "0">>
          /\ Num(DigitsToNat(mm) * 60 + DigitsToNat(ss))
               = MathRound(Mul(pace, Num(60)))

\* 10 km in 39:55: the sub-threshold pace is 3 min 59.5 s per km, stored and
\* shown as 4:00.
C16_Witness ==
  /\ raceDistance = Num(10)
  /\ pacesNum.subT = Q(479, 120)
  /\ MathRound(Mul(Sub(pacesNum.subT, Num(3)), Num(60))) = Num(60)
  /\ pacesStr.subT = <<"4", ":", "0", "0">> \o Chars(" min/km")

\* C17: for a positive race distance and a positive race time, with
\* v = distance / totalMinutes * 60, the estimate stores the score
\* round(10 + 2v) and the paces 7.5 / (v / 10), 6 / (v / 10), 5 / (v / 10);
\* hence easy > subT > hi > 0 and the paces are in the ratio 7.5 : 6 : 5.
C17_EstimatorFormulas ==
  [][(/\ calculateVdot
      /\ Gt(raceDistance, Num(0))
      /\ Gt(raceTotalMin(raceTime), Num(0)))
       => LET speed == Mul(Div(raceDistance, raceTotalMin(raceTime)), Num(60))
              paces == pacesNum'
          IN  /\ vdot' = <<MathRound(Add(Num(10), Mul(Num(2), speed)))>>
              /\ paces.easy = Div(Q(15, 2), Div(speed, Num(10)))
              /\ paces.subT = Div(Num(6), Div(speed, Num(10)))
              /\ paces.hi = Div(Num(5), Div(speed, Num(10)))
              /\ Gt(paces.easy, paces.subT)
              /\ Gt(paces.subT, paces.hi)
              /\ Gt(paces.hi, Num(0))
              /\ Mul(paces.easy, Num(6)) = Mul(paces.subT, Q(15, 2))
              /\ Mul(paces.subT, Num(5)) = Mul(paces.hi, Num(6))]_vars

\* 5 km in 38:29: v = 18000 / 2309 km/h, 10 + 2v = 25.59..., stored score
\* 26, easy pace 2309 / 240 min/km.
C17_Witness ==
  /\ raceDistance = Num(5)
  /\ raceTime = TimeText(38, 29)
  /\ vdot = <<Num(26)>>
  /\ pacesNum = [easy |-> Q(2309, 240), subT |-> Q(2309, 300),
                 hi |-> Q(2309, 360)]

\* C18: the total week time of the totals is the run total time (weekly
\* distance * easy pace, in hours) plus the weekly cycling hours when
\* cycling is enabled, and the run total time alone when it is disabled,
\* whatever the cycling-hours input holds.
C18_TotalWeekTime ==
  LET runTimeH == Div(Mul(weeklyMileage, pacesNum.easy), Num(60))
  IN  totals.totalTimeH
        = IF enableCycling THEN Add(runTimeH, cyclingHours) ELSE runTimeH

\* Cycling switched off with 10 h left in the hours input: 60 km at
\* 5 min/km are 5 h.
C18_Witness ==
  /\ ~enableCycling
  /\ cyclingHours = Num(10)
  /\ weeklyMileage = Num(60)
  /\ pacesNum.easy = Num(5)
  /\ totals.totalTimeH = Num(5)

\* Cycling switched on with 10 h: 15 h.
C18_WitnessCycling ==
  /\ enableCycling
  /\ cyclingHours = Num(10)
  /\ weeklyMileage = Num(60)
  /\ pacesNum.easy = Num(5)
  /\ totals.totalTimeH = Num(15)

\* The score that belongs to an easy pace: the estimate stores
\* round(10 + 2v) with the easy pace 7.5 / (v / 10), so v = 75 / easy pace.
ScoreOfEasyPace(easy) ==
  MathRound(Add(Num(10), Mul(Num(2), Div(Num(75), easy))))

\* C19: the fitness estimate is replaced as a whole.  In every reachable
\* state the displayed pace strings are the formatting of the stored numeric
\* paces, and a stored score is the one of the stored paces; the score is
\* absent until the first estimate calculation (the paces being the initial
\* ones) and present after it.
C19_EstimateReplacedAsAWhole ==
  /\ [](/\ \A zone \in ZoneNames :
             pacesStr[zone] = formatPace(pacesNum[zone])
        /\ vdot = <<>> =>
             pacesNum = [easy |-> Num(5), subT |-> Num(4), hi |-> Q(7, 2)]
        /\ vdot # <<>> =>
             /\ vdot[1] = ScoreOfEasyPace(pacesNum.easy)
             /\ Mul(pacesNum.easy, Num(6)) = Mul(pacesNum.subT, Q(15, 2))
             /\ Mul(pacesNum.subT, Num(5)) = Mul(pacesNum.hi, Num(6)))
  /\ [][/\ calculateVdot => vdot' # <<>>
        /\ vdot # <<>> => vdot' # <<>>
        /\ vdot' # vdot => calculateVdot]_vars

\* The estimate of 10 km in 40:00, stored whole, with the race time edited
\* afterwards: score 40, paces 5, 4 and 10/3 shown as 5:00, 4:00 and 3:20.
C19_Witness ==
  /\ raceTime = <<"0", ":", "0", "0">>
  /\ vdot = <<Num(40)>>
  /\ pacesNum = [easy |-> Num(5), subT |-> Num(4), hi |-> Q(10, 3)]
  /\ pacesStr = [easy |-> <<"5", ":", "0", "0">> \o Chars(" min/km"),
                 subT |-> <<"4", ":", "0", "0">> \o Chars(" min/km"),
                 hi |-> <<"3", ":", "2", "0">> \o Chars(" min/km")]

\* C20: every toggle of satHighIntensity resets the percentages to the
\* preset of the new value (75/18/7 on, 75/25/0 off), whatever they were
\* edited to before; every other operation but an edit of a percentage
\* (weekly distance, race inputs, estimate calculation, advanced options,
\* removals, cycling) keeps the percentages as they are.
C20_PercentagesResetOnToggle ==
  [][/\ satHighIntensity' # satHighIntensity =>
          percentages'
            = IF satHighIntensity'
                THEN [easy |-> Num(75), subT |-> Num(18), hi |-> Num(7)]
                ELSE [easy |-> Num(75), subT |-> Num(25), hi |-> Num(0)]
     /\ (\/ SetWeeklyMileage
         \/ SetRaceDistance
         \/ SetRaceTime
         \/ calculateVdot
         \/ ToggleAdvancedOptions
         \/ ToggleEnableCycling
         \/ SetCyclingHours
         \/ ToggleRemoveMon
         \/ ToggleRemoveFri) => percentages' = percentages
     /\ percentages' # percentages =>
          ToggleSatHighIntensity \/ SetPercentage]_vars

\* Saturday high intensity switched on, the hi percentage then edited to 50,
\* and the edit still there after an estimate calculation, a removal and
\* cycling hours.
C20_Witness ==
  /\ satHighIntensity
  /\ percentages = [easy |-> Num(75), subT |-> Num(18), hi |-> Num(50)]
  /\ vdot # <<>>
  /\ removeMon
  /\ enableCycling
  /\ cyclingHours = Num(10)
  /\ weeklyMileage = Num(0)

\* Percentages edited with Saturday high intensity off: the state from
\* which a toggle discards the edit.
C20_WitnessEditedBeforeToggle ==
  /\ ~satHighIntensity
  /\ percentages = [easy |-> Num(50), subT |-> Num(50), hi |-> Num(50)]
  /\ ENABLED ToggleSatHighIntensity

\* The sum of the hours of the entries of a chart series.
RECURSIVE SumHours(_)
SumHours(series) ==
  IF series = <<>> THEN Num(0)
  ELSE Add(Head(series).hours, SumHours(Tail(series)))

\* The inputs under which the zone times add up to the total time: a weekly
\* distance >= 0, finite positive paces, percentages that add up to 100.
ZoneTimesCoverTotal ==
  /\ Le(Num(0), weeklyMileage)
  /\ \A zone \in ZoneNames :
       IsFinite(pacesNum[zone]) /\ Gt(pacesNum[zone], Num(0))
  /\ Add(Add(percentages.easy, percentages.subT), percentages.hi) = Num(100)

\* C21: in every reachable state the hours of the chart series entries (Run
\* Easy, Run SubT, Run HI when shown, Bike Endurance and Bike SubT when
\* shown) add up to the total week time of the totals.  Stated for the
\* inputs under which the zone times add up to the total time.
C21_ChartAddsUpToTotal ==
  ZoneTimesCoverTotal => SumHours(chartData) = totals.totalTimeH

\* C21, where the code keeps it: the cycling hours are not negative while
\* cycling is enabled, and the high-intensity percentage is zero unless
\* Saturday is high intensity.
C21_HoldsWithShownSeries ==
  (/\ enableCycling => Le(Num(0), cyclingHours)
   /\ Gt(percentages.hi, Num(0)) => satHighIntensity)
    => C21_ChartAddsUpToTotal

\* C21 outside these inputs: reachable percentages that add up to 125, with
\* valid inputs otherwise, put 6.25 h on the chart of a 5 h week.
C21_PercentagesOver100 ==
  /\ weeklyMileage = Num(60)
  /\ pacesNum.easy = Num(5)
  /\ percentages = [easy |-> Num(75), subT |-> Num(50), hi |-> Num(0)]
  /\ ~enableCycling
  /\ SumHours(chartData) = Q(25, 4)
  /\ totals.totalTimeH = Num(5)

====
